---- MODULE Spec2Model ----
(***************************************************************************)
(* Schelling's model of segregation, src/main.py: the command-line         *)
(* arguments (ArgParser), the construction of the grid                     *)
(* (SocialSegregation.__init__), the iteration loop (run) and one          *)
(* relocation pass (_update), one move of the pass per step.               *)
(*                                                                         *)
(* Coordinates are 0-based as in the source: grid[y][x] with y a row and x *)
(* a column.  The two float arguments percent_empty and same_neighbour are *)
(* exact rationals num/den; the comparisons of the source are made on      *)
(* cross-multiplied integers.  Rendering (_save_img, _save_gif) and the    *)
(* directory checks of process_args touch no simulation state and are left *)
(* out.                                                                    *)
(***************************************************************************)
EXTENDS Integers, Sequences, FiniteSets, TLC

\* ------------------------------------------------------------------ bounds
MaxWidth  == 3      \* widths drawn: -1 .. MaxWidth
MaxHeight == 2      \* heights drawn: -1 .. MaxHeight
MaxCells  == 4      \* grids drawn have at most MaxCells cells
MaxTypes  == 2      \* agent_types drawn: 0 .. MaxTypes
MaxIter   == 1      \* iterations drawn: -2 .. MaxIter
MaxStep   == 2      \* value at which the loop counter of an unbounded run is cut off
PeDen     == 4      \* percent_empty is num/PeDen
SnDen     == 4      \* same_neighbour is num/SnDen
NbWidth   == 4      \* grids _get_neighbours is called on alone: 1 .. NbWidth wide
NbHeight  == 4      \* and 1 .. NbHeight high

\* The value of an empty cell.
Empty == -1

\* The iterations value that asks for an unbounded run.
Unbounded == -1

\* The lowest agent value: np.random.randint(2, agent_types + 2, ...).
FirstType == 2

\* The unit of a reported percentage: `* 100` rounded to 2 places.
Hundredths == 10000

VARIABLES
    args,           \* the parsed arguments (ArgParser)
    pc,             \* where the program is
    grid,           \* self.grid: [0..height-1 -> [0..width-1 -> value]]
    iteration,      \* self.iteration
    unhappy_cells,  \* _update's local: the shuffled list being walked
    empty_spots,    \* _update's local: the working list of destinations
    k,              \* position of the for loop of _update in unhappy_cells
    num_unhappy_cells, \* run's local: what the latest _update returned
    images,         \* the files of ./images: [iteration of the name -> grid drawn]
    stats,          \* the latest `Iteration i done (p% cells are happy)` line
    got_neighbours, \* the latest call of _get_neighbours made on its own
    grid0,          \* history: the grid as built by __init__
    pre,            \* history: the grid at the start of the current pass
    dests,          \* history: the destinations picked so far in the pass
    rescans,        \* history: positions in the pass at which the rescan ran
    passes          \* history: the number of passes that ran to the end

vars == <<args, pc, grid, iteration, unhappy_cells, empty_spots, k,
          num_unhappy_cells, images, stats, got_neighbours, grid0, pre, dests,
          rescans, passes>>

\* ---------------------------------------------------------------- helpers
Range(s) == {s[i] : i \in DOMAIN s}

Perms(s) ==
    {p \in [1..Len(s) -> Range(s)] : \A i, j \in 1..Len(s) : i # j => p[i] # p[j]}

\* Mutant of Remove: the destination stays on the working list.
RemoveNothing(s, x) == s

\* list.remove(x): drops the first occurrence of x.
RECURSIVE Remove(_, _)
Remove(s, x) ==
    IF s = <<>> THEN <<>>
    ELSE IF Head(s) = x THEN Tail(s)
    ELSE <<Head(s)>> \o Remove(Tail(s), x)

\* len(self.grid), len(self.grid[0]) and self.grid.size
Height(g) == Cardinality(DOMAIN g)
Width(g) == IF Height(g) = 0 THEN 0 ELSE Cardinality(DOMAIN g[0])
Size(g) == Height(g) * Width(g)

\* The coordinates in the order of the two nested enumerate loops (row-major).
Coords(g) ==
    [n \in 1..Size(g) |-> <<(n - 1) \div Width(g), (n - 1) % Width(g)>>]

At(g, c) == g[c[1]][c[2]]

\* The 3 x 3 block of the two range() loops of _get_neighbours, in loop order.
Block(row_number, column_number) ==
    [n \in 1..9 |-> <<row_number - 1 + ((n - 1) \div 3), column_number - 1 + ((n - 1) % 3)>>]

\* Mutant of InFilter: `and` for `or` in the test that leaves the cell out.
InFilterAnd(g, row_number, column_number, c) ==
    /\ c[1] >= 0
    /\ c[2] >= 0
    /\ c[1] < Height(g)
    /\ c[2] < Width(g)
    /\ (c[1] # row_number /\ c[2] # column_number)

\* _get_neighbours: the values of the cells of the block that pass the filter.
InFilter(g, row_number, column_number, c) ==
    /\ c[1] >= 0
    /\ c[2] >= 0
    /\ c[1] < Height(g)
    /\ c[2] < Width(g)
    /\ (c[1] # row_number \/ c[2] # column_number)

get_neighbours(g, row_number, column_number) ==
    LET picked == SelectSeq(Block(row_number, column_number),
                            LAMBDA c : InFilter(g, row_number, column_number, c))
    IN  [n \in 1..Len(picked) |-> At(g, picked[n])]

\* sum(i == current for i in not_empty_neighbours if i != -1)
SameCount(current, not_empty_neighbours) ==
    Len(SelectSeq(not_empty_neighbours, LAMBDA i : i # Empty /\ i = current))

\* Mutant of IsUnhappy: `<=` for `<`.
IsUnhappyOrEqual(g, sn, c) ==
    LET current == At(g, c)
        neighbours == get_neighbours(g, c[1], c[2])
        not_empty_neighbours == SelectSeq(neighbours, LAMBDA i : i # Empty)
    IN  SameCount(current, not_empty_neighbours) * sn.den
            <= Len(not_empty_neighbours) * sn.num

\* Mutant of IsUnhappy: the empty neighbours are counted in the length.
IsUnhappyOfAll(g, sn, c) ==
    LET current == At(g, c)
        neighbours == get_neighbours(g, c[1], c[2])
        not_empty_neighbours == SelectSeq(neighbours, LAMBDA i : i # Empty)
    IN  SameCount(current, not_empty_neighbours) * sn.den
            < Len(neighbours) * sn.num

\* The test of _find_unhappy_cells for one cell, with same_neighbour = sn.num/sn.den:
\*   sum(...) < len(not_empty_neighbours) * same_neighbour
IsUnhappy(g, sn, c) ==
    LET current == At(g, c)
        neighbours == get_neighbours(g, c[1], c[2])
        not_empty_neighbours == SelectSeq(neighbours, LAMBDA i : i # Empty)
    IN  SameCount(current, not_empty_neighbours) * sn.den
            < Len(not_empty_neighbours) * sn.num

\* Mutant of Scanned: the empty cells are not skipped.
ScannedAll(g, c) == TRUE

\* Cells the scan of _find_unhappy_cells looks at (`if x == -1: continue`).
Scanned(g, c) == At(g, c) # Empty

\* _find_unhappy_cells before the shuffle: the list in scan order.
find_unhappy_cells(g, sn) ==
    SelectSeq(Coords(g), LAMBDA c : Scanned(g, c) /\ IsUnhappy(g, sn, c))

\* Mutant of get_empty_cells: the test `x == -1` is left out.
get_empty_cells_untested(g) == Coords(g)

\* _get_empty_cells
get_empty_cells(g) == SelectSeq(Coords(g), LAMBDA c : At(g, c) = Empty)

\* ------------------------------------------------------------------- Init
Rat(n, d) == [num |-> n, den |-> d]

ArgSpace ==
    [width : -1..MaxWidth, height : -1..MaxHeight, agent_types : 0..MaxTypes,
     iterations : -2..MaxIter,
     percent_empty : {Rat(n, PeDen) : n \in -1..PeDen},
     same_neighbour : {Rat(n, SnDen) : n \in -1..SnDen}]

Init ==
    /\ args \in {a \in ArgSpace : a.width * a.height <= MaxCells}
    /\ pc = "parse"
    /\ grid = <<>>
    /\ iteration = 0
    /\ unhappy_cells = <<>>
    /\ empty_spots = <<>>
    /\ k = 0
    /\ num_unhappy_cells = 0
    /\ images = <<>>
    /\ stats = <<>>
    /\ got_neighbours = <<>>
    /\ grid0 = <<>>
    /\ pre = <<>>
    /\ dests = <<>>
    /\ rescans = {}
    /\ passes = 0

\* ------------------------------------------------------------ process_args
\* `x < 0 or x >= 1` for x = r.num/r.den
OutsideUnit(r) == r.num < 0 \/ r.num >= r.den

process_args ==
    /\ pc = "parse"
    /\ pc' = IF OutsideUnit(args.percent_empty) \/ OutsideUnit(args.same_neighbour)
             THEN "ValueError"
             ELSE "init"
    /\ UNCHANGED <<args, grid, iteration, unhappy_cells, empty_spots, k,
                   num_unhappy_cells, images, stats, got_neighbours, grid0, pre,
                   dests, rescans, passes>>

\* ---------------------------------------------------------------- __init__
\* round(n / d) for n >= 0, d > 0: to the nearest integer, a tie to the even one.
RoundHalfEven(n, d) ==
    LET q == n \div d
        r == n % d
    IN  IF 2 * r < d THEN q
        ELSE IF 2 * r > d THEN q + 1
        ELSE IF q % 2 = 0 THEN q ELSE q + 1

\* Mutant of NumEmpty: round() in place of int().
NumEmptyRounded(pe, size) == RoundHalfEven(pe.num * size, pe.den)

\* int(args.percent_empty * self.grid.size), percent_empty >= 0 here
NumEmpty(pe, size) == (pe.num * size) \div pe.den

\* The grids __init__ can build: every cell drawn from FirstType..agent_types+1,
\* then the cells whose flat index is among the first num_empty of a shuffle of
\* all indices set to -1.
InitialGrids(a) ==
    LET h == a.height
        w == a.width
        num_empty == NumEmpty(a.percent_empty, h * w)
        draws == [0..(h - 1) -> [0..(w - 1) -> FirstType..(a.agent_types + 1)]]
        picks == {E \in SUBSET (0..(h * w - 1)) : Cardinality(E) = num_empty}
    IN  {[y \in 0..(h - 1) |-> [x \in 0..(w - 1) |->
            IF (y * w + x) \in E THEN Empty ELSE r[y][x]]] : r \in draws, E \in picks}

\* np.random.randint raises ValueError for a negative dimension and, on a grid
\* that has cells, for an empty range of values (agent_types < 1).  For a grid
\* of zero cells and an empty range the outcome depends on the numpy release:
\* both are kept.
RandintRaises(a) ==
    \/ a.width < 0
    \/ a.height < 0
    \/ a.agent_types < 1

RandintReturns(a) ==
    /\ a.width >= 0
    /\ a.height >= 0
    /\ (a.agent_types >= 1 \/ a.width * a.height = 0)

SocialSegregation_init ==
    /\ pc = "init"
    /\ \/ /\ RandintRaises(args)
          /\ pc' = "ValueError"
          /\ UNCHANGED <<grid, grid0>>
       \/ /\ RandintReturns(args)
          /\ grid' \in InitialGrids(args)
          /\ grid0' = grid'
          /\ pc' = "run"
    /\ iteration' = 0
    /\ UNCHANGED <<args, unhappy_cells, empty_spots, k, num_unhappy_cells,
                   images, stats, got_neighbours, pre, dests, rescans, passes>>

\* --------------------------------------------------------------------- run
\* Mutant of IteratorOver: range(1, iterations + 2).
IteratorOverLate == args.iterations # Unbounded /\ iteration > args.iterations

\* Mutant of IteratorOver: -1 is not told apart, range(1, 0) is empty.
IteratorOverAlways == iteration + 1 > args.iterations

\* The for loop of run is at its head when pc = "run"; the next value of the
\* iterator is self.iteration + 1.  range(1, iterations + 1) is over when that
\* value exceeds iterations; itertools.count(1) is never over.
IteratorOver ==
    args.iterations # Unbounded /\ iteration + 1 > args.iterations

\* Mutant of NextIteration: `self.iteration = i` is left out.
NextIterationStale(sat) == iteration

\* The value the loop gives to self.iteration.  sat = FALSE: the counter as
\* in the source, cut off at MaxStep by the guard CanCount.  sat = TRUE: the
\* counter stays at MaxStep once there, so that an unbounded run can go on.
NextIteration(sat) == IF sat /\ iteration >= MaxStep THEN MaxStep ELSE iteration + 1
CanCount(sat) == sat \/ iteration < MaxStep

\* _save_img: the grid is drawn into the file named after self.iteration
\* (rjust(3, "0") pads the name), replacing a file of that name.
save_img(files, name, g) ==
    [n \in (DOMAIN files) \cup {name} |-> IF n = name THEN g ELSE files[n]]

\* round((all_cells - num_unhappy_cells) / all_cells * 100, 2), in hundredths
\* of a percent.
percent_happy_cells(all_cells, n) ==
    RoundHalfEven((all_cells - n) * Hundredths, all_cells)

\* The loop is over: `All iterations are finished.`
run_finished ==
    /\ pc = "run"
    /\ IteratorOver
    /\ pc' = "BudgetExhausted"
    /\ UNCHANGED <<args, grid, iteration, unhappy_cells, empty_spots, k,
                   num_unhappy_cells, images, stats, got_neighbours, grid0, pre,
                   dests, rescans, passes>>

\* One more iteration whose _find_unhappy_cells finds nothing: sys.exit(0).
run_converged(sat) ==
    /\ pc = "run"
    /\ ~IteratorOver
    /\ CanCount(sat)
    /\ find_unhappy_cells(grid, args.same_neighbour) = <<>>
    /\ iteration' = NextIteration(sat)
    /\ images' = save_img(images, NextIteration(sat), grid)
    /\ pc' = "Converged"
    /\ UNCHANGED <<args, grid, unhappy_cells, empty_spots, k,
                   num_unhappy_cells, stats, got_neighbours, grid0, pre, dests,
                   rescans, passes>>

\* One more iteration that enters _update: the unhappy cells are found and
\* shuffled, the empty cells listed, and the for loop of _update starts.
run_update(sat) ==
    /\ pc = "run"
    /\ ~IteratorOver
    /\ CanCount(sat)
    /\ find_unhappy_cells(grid, args.same_neighbour) # <<>>
    /\ iteration' = NextIteration(sat)
    /\ images' = save_img(images, NextIteration(sat), grid)
    /\ unhappy_cells' \in Perms(find_unhappy_cells(grid, args.same_neighbour))
    /\ empty_spots' = get_empty_cells(grid)
    /\ k' = 1
    /\ pre' = grid
    /\ dests' = <<>>
    /\ rescans' = {}
    /\ pc' = "update"
    /\ UNCHANGED <<args, grid, num_unhappy_cells, stats, got_neighbours, grid0,
                   passes>>

\* ----------------------------------------------------------------- _update
Put(g, c, v) == [g EXCEPT ![c[1]][c[2]] = v]

\* Mutant of MoveAgent: the source is not cleared.
MoveAgentNoClear(g, src, dst) == Put(g, dst, At(g, src))

\* Mutant of MoveAgent: the two assignments in the other order.
MoveAgentSwapped(g, src, dst) == Put(Put(g, src, Empty), dst, At(Put(g, src, Empty), src))

\* The two assignments of a move, in the order of the source.
MoveAgent(g, src, dst) == Put(Put(g, dst, At(g, src)), src, Empty)

\* Mutant of Spots: on exhaustion the list of the start of the pass is taken
\* again instead of a rescan of the grid.
SpotsFromPre(g, spots) == IF spots = <<>> THEN get_empty_cells(pre) ELSE spots

\* Mutant of Spots: no retry, the exhausted list is drawn from as it is.
SpotsNoRescan(g, spots) == spots

\* Mutant of Spots: the grid is rescanned at every turn.
SpotsAlwaysRescan(g, spots) == get_empty_cells(g)

\* The list random.choice draws from for the k-th unhappy cell: empty_spots,
\* or the rescan when empty_spots is empty (the except IndexError branch).
Spots(g, spots) == IF spots = <<>> THEN get_empty_cells(g) ELSE spots

\* One turn of the for loop: a destination is drawn, the agent moved and the
\* destination taken off the working list.
update_move ==
    /\ pc = "update"
    /\ k <= Len(unhappy_cells)
    /\ LET spots == Spots(grid, empty_spots)
       IN  /\ spots # <<>>
           /\ \E n \in 1..Len(spots) :
                /\ grid' = MoveAgent(grid, unhappy_cells[k], spots[n])
                /\ empty_spots' = Remove(spots, spots[n])
                /\ dests' = Append(dests, spots[n])
    /\ rescans' = IF empty_spots = <<>> THEN rescans \cup {k} ELSE rescans
    /\ k' = k + 1
    /\ UNCHANGED <<args, pc, iteration, unhappy_cells, num_unhappy_cells,
                   images, stats, got_neighbours, grid0, pre, passes>>

\* One turn of the for loop in which the rescan finds no empty cell either:
\* the second random.choice raises IndexError, which nothing catches.
update_IndexError ==
    /\ pc = "update"
    /\ k <= Len(unhappy_cells)
    /\ Spots(grid, empty_spots) = <<>>
    /\ pc' = "IndexError"
    /\ UNCHANGED <<args, grid, iteration, unhappy_cells, empty_spots, k,
                   num_unhappy_cells, images, stats, got_neighbours, grid0, pre,
                   dests, rescans, passes>>

\* The for loop is over: _update returns len(unhappy_cells), its locals are
\* gone, and run reports the iteration.
update_return ==
    /\ pc = "update"
    /\ k > Len(unhappy_cells)
    /\ num_unhappy_cells' = Len(unhappy_cells)
    /\ stats' = [iteration |-> iteration,
                 percent_happy_cells |->
                     percent_happy_cells(Size(grid), Len(unhappy_cells))]
    /\ unhappy_cells' = <<>>
    /\ empty_spots' = <<>>
    /\ k' = 0
    /\ pre' = <<>>
    /\ dests' = <<>>
    /\ rescans' = {}
    /\ pc' = "run"
    /\ passes' = IF passes < MaxStep THEN passes + 1 ELSE passes
    /\ UNCHANGED <<args, grid, iteration, images, got_neighbours, grid0>>

\* ------------------------------------------------------------------- specs
Next ==
    \/ process_args
    \/ SocialSegregation_init
    \/ run_finished
    \/ run_converged(FALSE)
    \/ run_update(FALSE)
    \/ update_move
    \/ update_IndexError
    \/ update_return

Spec == Init /\ [][Next]_vars

\* The same program with the counter of the loop held at MaxStep, and the
\* program never pausing while a step is possible (one thread, no waiting).
NextSat ==
    \/ process_args
    \/ SocialSegregation_init
    \/ run_finished
    \/ run_converged(TRUE)
    \/ run_update(TRUE)
    \/ update_move
    \/ update_IndexError
    \/ update_return

FairSpec == Init /\ [][NextSat]_vars /\ WF_vars(NextSat)

\* _get_neighbours on its own.  The grid is one __init__ can build with
\* agent_types = width * height and percent_empty = 0: every cell holds a
\* value of its own, so that the values returned tell the cells read.
NeighbourArgs ==
    {[width |-> w, height |-> h, agent_types |-> w * h, iterations |-> Unbounded,
      percent_empty |-> Rat(0, PeDen), same_neighbour |-> Rat(0, SnDen)] :
        w \in 1..NbWidth, h \in 1..NbHeight}

NeighbourGrid(a) ==
    [y \in 0..(a.height - 1) |-> [x \in 0..(a.width - 1) |-> FirstType + y * a.width + x]]

NeighbourInit ==
    /\ args \in NeighbourArgs
    /\ pc = "neighbours"
    /\ grid = NeighbourGrid(args)
    /\ grid0 = grid
    /\ iteration = 0
    /\ unhappy_cells = <<>>
    /\ empty_spots = <<>>
    /\ k = 0
    /\ num_unhappy_cells = 0
    /\ images = <<>>
    /\ stats = <<>>
    /\ got_neighbours = <<>>
    /\ pre = <<>>
    /\ dests = <<>>
    /\ rescans = {}
    /\ passes = 0

\* self._get_neighbours(row_number, column_number) for a cell of the grid, as
\* the scan of _find_unhappy_cells calls it.
get_neighbours_call ==
    /\ pc = "neighbours"
    /\ \E c \in Range(Coords(grid)) :
         got_neighbours' = [row_number |-> c[1], column_number |-> c[2],
                            result |-> get_neighbours(grid, c[1], c[2])]
    /\ UNCHANGED <<args, pc, grid, iteration, unhappy_cells, empty_spots, k,
                   num_unhappy_cells, images, stats, grid0, pre, dests, rescans,
                   passes>>

NeighbourNext == get_neighbours_call

NeighbourSpec == NeighbourInit /\ [][NeighbourNext]_vars

\* ------------------------------------------------- vocabulary of the claims
\* These are stated on the grid alone, not through the operators above.
Cells(g) == UNION {{<<y, x>> : x \in DOMAIN g[y]} : y \in DOMAIN g}

Abs(n) == IF n < 0 THEN -n ELSE n

\* The in-bounds cells at Chebyshev distance 1.
Moore(g, c) ==
    {d \in Cells(g) : d # c /\ Abs(d[1] - c[1]) <= 1 /\ Abs(d[2] - c[2]) <= 1}

Occupied(g, c) == {d \in Moore(g, c) : At(g, d) # Empty}
Same(g, c) == {d \in Occupied(g, c) : At(g, d) = At(g, c)}

\* Strictly fewer same-type occupied neighbours than occupied neighbours times sn.
BelowThreshold(g, sn, c) ==
    Cardinality(Same(g, c)) * sn.den < Cardinality(Occupied(g, c)) * sn.num

UnhappySet(g, sn) ==
    {c \in Cells(g) : At(g, c) # Empty /\ BelowThreshold(g, sn, c)}

CountOf(g, v) == Cardinality({c \in Cells(g) : At(g, c) = v})
ValuesOf(g) == {At(g, c) : c \in Cells(g)}
EmptyCount(g) == CountOf(g, Empty)

\* The program is past __init__ and holds a grid.
Built == pc \in {"run", "update", "Converged", "BudgetExhausted", "IndexError"}

\* The for loop of the pass has walked the whole list; _update is to return.
PassDone == pc = "update" /\ k > Len(unhappy_cells)

\* No pass is under way.
BetweenPasses == pc \in {"run", "Converged", "BudgetExhausted"}

\* -------------------------------------------------------------------- C1
\* C1: in every state, between passes and after every single move of a pass,
\* each agent value occurs in the grid as many times as in the grid built by
\* __init__: no move creates, destroys, overwrites or retypes an agent.
C1_Conservation ==
    Built =>
        \A v \in (ValuesOf(grid) \cup ValuesOf(grid0)) \ {Empty} :
            CountOf(grid, v) = CountOf(grid0, v)

\* A second pass is under way, a rescan has happened in it and a vacated cell
\* has been used again.
C1_Witness ==
    /\ pc = "update"
    /\ passes >= 1
    /\ rescans # {}
    /\ \E m \in 1..Len(dests) : \E j \in 1..Len(unhappy_cells) : dests[m] = unhappy_cells[j]

\* -------------------------------------------------------------------- C2
\* C2: whenever no pass is under way, the grid has as many Empty cells as the
\* grid built by __init__.
C2_EmptyCountStable ==
    BetweenPasses => EmptyCount(grid) = EmptyCount(grid0)

\* A pass has ended that moved more agents than there are empty cells.
C2_Witness ==
    /\ BetweenPasses
    /\ passes >= 1
    /\ num_unhappy_cells > EmptyCount(grid)

\* -------------------------------------------------------------------- C3
\* C3: a configuration whose grid has no Empty cell is rejected at setup, so
\* that no pass of a run fails to find an empty cell: the IndexError of the
\* second random.choice of _update, which nothing catches, never happens.
C3_NoEmptyCellRejectedAtSetup == pc # "IndexError"

Isolated(g, c) == At(g, c) # Empty /\ Occupied(g, c) = {}

\* C5: a non-Empty cell with no occupied in-bounds neighbour is not in the
\* result of _find_unhappy_cells on any grid the program reaches, is not in
\* the list a pass walks, and keeps its agent throughout that pass.
C5_IsolatedIsHappy ==
    /\ Built =>
        \A c \in Cells(grid) :
            Isolated(grid, c) =>
                c \notin Range(find_unhappy_cells(grid, args.same_neighbour))
    /\ pc = "update" =>
        \A c \in Cells(pre) :
            Isolated(pre, c) =>
                /\ c \notin Range(unhappy_cells)
                /\ At(grid, c) = At(pre, c)

\* Under a threshold above 0 a pass has left an agent whose in-bounds
\* neighbours are all Empty, the next iteration has classified it, and the run
\* has converged.
C5_Witness ==
    /\ pc = "Converged"
    /\ passes >= 1
    /\ args.same_neighbour.num > 0
    /\ \E c \in Cells(grid) : Isolated(grid, c) /\ Moore(grid, c) # {}

\* -------------------------------------------------------------------- C6
\* The iterator of run has a next value.
BudgetLeft == args.iterations = Unbounded \/ iteration < args.iterations

C6_StepOfConvergence ==
    /\ (pc = "run" /\ BudgetLeft /\ UnhappySet(grid, args.same_neighbour) = {}) =>
           /\ pc' = "Converged"
           /\ grid' = grid
           /\ dests' = dests
           /\ passes' = passes
    /\ pc' = "Converged" =>
           /\ pc \in {"run", "Converged"}
           /\ grid' = grid
           /\ UnhappySet(grid', args.same_neighbour) = {}
           /\ find_unhappy_cells(grid', args.same_neighbour) = <<>>
    /\ pc = "Converged" => UNCHANGED vars

\* C6: an iteration that starts on a grid whose unhappy set is empty ends the
\* run as Converged without any move (the grid and the pass history stay as
\* they are); a Converged program takes no further step, and its grid has an
\* empty unhappy set, by the set's definition and by _find_unhappy_cells run
\* again.
C6_ConvergenceIsTerminal == [][C6_StepOfConvergence]_vars

\* The run has converged after at least one pass, on a grid that holds agents
\* of two types.
C6_Witness ==
    /\ pc = "Converged"
    /\ passes >= 1
    /\ Cardinality(ValuesOf(grid) \ {Empty}) >= 2

\* -------------------------------------------------------------------- C7
\* The budget of C7, and the two halves of its statement: the states, the steps.
FiniteBudget == args.iterations >= 0

C7_AtMostN ==
    (Built /\ FiniteBudget) =>
        /\ passes <= args.iterations
        /\ passes = args.iterations =>
               (pc \in {"run", "BudgetExhausted"} /\ iteration = args.iterations)
        /\ pc = "BudgetExhausted" => passes = args.iterations

C7_StepAtN ==
    /\ (FiniteBudget /\ pc = "run" /\ passes = args.iterations) =>
           (pc' = "BudgetExhausted" /\ grid' = grid)
    /\ pc = "BudgetExhausted" => UNCHANGED vars

\* C7: with a budget N >= 0 no more than N passes run to their end; once N
\* passes have, the loop is at its head with the counter at N, its only step
\* is to BudgetExhausted, whatever the unhappy set, and neither that step nor
\* any later one changes the grid.
C7_BudgetExhausted == []C7_AtMostN /\ [][C7_StepAtN]_vars

\* The budget ran out after a pass that left every agent happy: the run ends
\* as BudgetExhausted, not as Converged.
C7_Witness ==
    /\ pc = "BudgetExhausted"
    /\ passes = args.iterations
    /\ passes >= 1
    /\ UnhappySet(grid, args.same_neighbour) = {}

\* -------------------------------------------------------------------- C8
\* C8 as stated: an unbounded run on a grid with an Empty cell, at the head
\* of its loop, eventually converges.
C8_EventuallyConverged ==
    (args.iterations = Unbounded /\ pc = "run" /\ EmptyCount(grid) > 0)
        ~> (pc = "Converged")

\* C8 as amended: an unbounded run never ends as BudgetExhausted, and on a
\* grid built with an Empty cell it ends, if it ends, as Converged only.
C8_EndsOnlyConverged ==
    args.iterations = Unbounded =>
        /\ pc # "BudgetExhausted"
        /\ (Built /\ EmptyCount(grid0) > 0) => pc # "IndexError"

\* An unbounded run has converged after at least two passes.
C8_Witness ==
    /\ args.iterations = Unbounded
    /\ pc = "Converged"
    /\ passes >= 2
    /\ EmptyCount(grid0) > 0

\* -------------------------------------------------------------------- C9
\* The domains of the configuration values.
InDomain(a) ==
    /\ a.width > 0
    /\ a.height > 0
    /\ a.agent_types >= 1
    /\ ~OutsideUnit(a.percent_empty)
    /\ ~OutsideUnit(a.same_neighbour)
    /\ (a.iterations >= 1 \/ a.iterations = Unbounded)

\* C9: arguments with a value outside its domain never get past __init__:
\* the program stops with an error before a grid exists and a step runs.
C9_OutOfDomainRejected ==
    ~InDomain(args) => pc \in {"parse", "init", "ValueError"}

\* ------------------------------------------------------------------- C10
\* The later turns of the pass whose destination is the j-th coordinate of the list.
SentLater(j) == {m \in (j + 1)..Len(dests) : dests[m] = unhappy_cells[j]}

\* C10: when a pass is over, a coordinate of its list holds Empty, unless an
\* agent walked later in the list was sent to it, and then it holds that
\* agent's value; no agent walked earlier or at the same turn was sent to it.
C10_PostPass ==
    PassDone =>
        \A j \in 1..Len(unhappy_cells) :
            /\ \A m \in 1..j : dests[m] # unhappy_cells[j]
            /\ SentLater(j) = {} => At(grid, unhappy_cells[j]) = Empty
            /\ SentLater(j) # {} =>
                   /\ Cardinality(SentLater(j)) = 1
                   /\ \A m \in SentLater(j) :
                          At(grid, unhappy_cells[j]) = At(pre, unhappy_cells[m])

\* A pass is over in which one unhappy coordinate was left Empty and another
\* was taken by an agent of the other type walked later.
C10_Witness ==
    /\ PassDone
    /\ \E j \in 1..Len(unhappy_cells) : SentLater(j) = {}
    /\ \E j \in 1..Len(unhappy_cells) :
           \E m \in SentLater(j) : At(pre, unhappy_cells[m]) # At(pre, unhappy_cells[j])

\* ------------------------------------------------------------------- C11
\* The turn of a pass that has just drawn a destination.
Drew == pc = "update" /\ Len(dests') = Len(dests) + 1

C11_WriteIntoEmpty ==
    Drew =>
        /\ At(grid, dests'[Len(dests')]) = Empty
        /\ \A m \in 1..Len(dests) : dests[m] # dests'[Len(dests')]
        /\ At(grid', dests'[Len(dests')]) = At(grid, unhappy_cells[k])

C11_DestinationsDistinct ==
    pc = "update" =>
        /\ \A m, n \in 1..Len(dests) : m # n => dests[m] # dests[n]
        /\ \A m \in 1..Len(dests) : At(grid, dests[m]) # Empty

\* C11: in a pass no coordinate is drawn as a destination twice, every move
\* writes the agent into a cell that holds Empty when it is written, and the
\* cells drawn earlier in the pass stay occupied to its end.
C11_NoDestinationTwice == []C11_DestinationsDistinct /\ [][C11_WriteIntoEmpty]_vars

\* A pass has drawn three destinations, the last after a rescan.
C11_Witness ==
    /\ pc = "update"
    /\ Len(dests) >= 3
    /\ rescans # {}

\* ------------------------------------------------------------------- C12
\* C12: after every pass that ran to its end a snapshot of the grid the pass
\* produced has been emitted under the number of the iteration, next to the
\* statistics of that iteration; so the grid of the last pass of a run whose
\* budget is used up is among the snapshots when the run ends.
C12_SnapshotAfterEveryPass ==
    (pc \in {"run", "BudgetExhausted"} /\ passes >= 1) =>
        /\ iteration \in DOMAIN images
        /\ images[iteration] = grid
        /\ stats # <<>>
        /\ stats.iteration = iteration

\* ------------------------------------------------------------------- C13
\* The statement as the specification words it: in a terminal state the
\* counter is the number of passes that ran to their end.
C13_CounterIsPasses ==
    pc \in {"Converged", "BudgetExhausted"} => iteration = passes

C13_CounterByPlace ==
    /\ pc \in {"parse", "init", "ValueError"} => iteration = 0 /\ passes = 0
    /\ pc \in {"run", "BudgetExhausted"} => iteration = passes
    /\ pc \in {"update", "IndexError", "Converged"} => iteration = passes + 1

C13_CounterStep ==
    /\ iteration' \in {iteration, iteration + 1}
    /\ iteration' = iteration + 1 <=> (pc = "run" /\ pc' \in {"update", "Converged"})

\* C13: the counter is 0 before any step, never decreases and goes up by one
\* exactly when an iteration of the loop starts; it is the number of passes
\* that ran to their end when the run is BudgetExhausted, and one more than
\* that number when the run is Converged.
C13_CounterCountsIterationsStarted ==
    []C13_CounterByPlace /\ [][C13_CounterStep]_vars

\* A run has converged after a pass: the counter is one ahead of the passes.
C13_Witness ==
    /\ pc = "Converged"
    /\ passes >= 1
    /\ iteration = passes + 1

\* ------------------------------------------------------------------- C14
\* The statement as the specification words it: round(percent_empty * width *
\* height) cells are Empty in the grid __init__ builds.
C14_RoundedEmptyCount ==
    Built =>
        EmptyCount(grid0) =
            RoundHalfEven(args.percent_empty.num * args.width * args.height,
                          args.percent_empty.den)

\* C14: the grid __init__ builds has exactly floor(percent_empty * width *
\* height) Empty cells, and every other cell holds one of the agent_types
\* values FirstType .. agent_types + 1.
C14_TruncatedEmptyCount ==
    Built =>
        LET product == args.percent_empty.num * args.width * args.height
            den == args.percent_empty.den
        IN  /\ Cardinality(Cells(grid0)) = args.width * args.height
            /\ EmptyCount(grid0) * den <= product
            /\ product < (EmptyCount(grid0) + 1) * den
            /\ \A c \in Cells(grid0) :
                  \/ grid0[c[1]][c[2]] = Empty
                  \/ grid0[c[1]][c[2]] \in FirstType..(args.agent_types + 1)

\* A grid was built with empty cells whose number is the truncated product
\* and not the rounded one.
C14_Witness ==
    /\ Built
    /\ EmptyCount(grid0) >= 1
    /\ 2 * ((args.percent_empty.num * args.width * args.height)
                % args.percent_empty.den) >= args.percent_empty.den
    /\ EmptyCount(grid0) # RoundHalfEven(args.percent_empty.num * args.width * args.height,
                                         args.percent_empty.den)

\* ------------------------------------------------------------------- C15
\* The cell of the latest call made on _get_neighbours alone.
Called == <<got_neighbours.row_number, got_neighbours.column_number>>

\* The number of neighbours by the place of the cell in the grid.
OnRowBorder(g, c) == c[1] = 0 \/ c[1] = Cardinality(DOMAIN g) - 1
OnColumnBorder(g, c) == c[2] = 0 \/ c[2] = Cardinality(DOMAIN g[0]) - 1
AtLeastTwoByTwo(g) == Cardinality(DOMAIN g) >= 2 /\ Cardinality(DOMAIN g[0]) >= 2

\* C15: _get_neighbours returns the values of exactly the cells of the grid at
\* Chebyshev distance 1 of the cell, each once: 8 for an interior cell, 5 for
\* an edge cell and 3 for a corner of a grid of at least 2 x 2, fewer on a grid
\* one cell wide; never the cell itself, never a cell across the border, and
\* the grid is as it was.
C15_NeighboursAreMoore ==
    (pc = "neighbours" /\ got_neighbours # <<>>) =>
        LET result == got_neighbours.result
            near == Moore(grid, Called)
        IN  /\ Len(result) = Cardinality(near)
            /\ Range(result) = {grid[d[1]][d[2]] : d \in near}
            /\ grid[Called[1]][Called[2]] \notin Range(result)
            /\ \A d \in Cells(grid) :
                  grid[d[1]][d[2]] \in Range(result) =>
                      /\ Abs(d[1] - Called[1]) <= 1
                      /\ Abs(d[2] - Called[2]) <= 1
            /\ AtLeastTwoByTwo(grid) =>
                  Len(result) =
                      IF OnRowBorder(grid, Called) /\ OnColumnBorder(grid, Called) THEN 3
                      ELSE IF OnRowBorder(grid, Called) \/ OnColumnBorder(grid, Called) THEN 5
                      ELSE 8
            /\ ~AtLeastTwoByTwo(grid) => Len(result) <= 2
            /\ grid = grid0

\* The call was made on an interior cell and returned eight values.
C15_Witness ==
    /\ pc = "neighbours"
    /\ got_neighbours # <<>>
    /\ Len(got_neighbours.result) = 8
    /\ ~OnRowBorder(grid, Called)
    /\ ~OnColumnBorder(grid, Called)

\* ------------------------------------------------------------------- C16
\* The grid __init__ built has no unhappy agent.
StableStart == Built /\ UnhappySet(grid0, args.same_neighbour) = {}

\* The budget admits a first iteration.
FirstIterationRuns == args.iterations = Unbounded \/ args.iterations >= 1

\* The statement as the specification words it: the run that converges on the
\* grid it started from does so at iteration 1, has moved nothing and has
\* reported 100 percent of happy cells for that iteration.
C16_ConvergesReportingAllHappy ==
    (StableStart /\ pc = "Converged") =>
        /\ iteration = 1
        /\ grid = grid0
        /\ stats # <<>>
        /\ stats.iteration = 1
        /\ stats.percent_happy_cells = (100 * Hundredths) \div 100

\* C16: when the grid __init__ built has no unhappy agent, no agent is ever
\* moved and no statistics line is printed; the run ends Converged at
\* iteration 1, with the grid saved as the image of iteration 1, when the
\* budget admits a first iteration, and BudgetExhausted at iteration 0 when it
\* does not.
C16_StableStartConvergesSilently ==
    StableStart =>
        /\ grid = grid0
        /\ passes = 0
        /\ stats = <<>>
        /\ pc \in {"run", "Converged", "BudgetExhausted"}
        /\ pc = "run" =>
              /\ iteration = 0
              /\ images = <<>>
        /\ pc = "Converged" =>
              /\ FirstIterationRuns
              /\ iteration = 1
              /\ DOMAIN images = {1}
              /\ images[1] = grid0
        /\ pc = "BudgetExhausted" =>
              /\ ~FirstIterationRuns
              /\ iteration = 0
              /\ images = <<>>

\* A run on a grid of two agents or more that started stable has converged.
C16_Witness ==
    /\ StableStart
    /\ pc = "Converged"
    /\ iteration = 1
    /\ stats = <<>>
    /\ Cardinality(Cells(grid0)) - EmptyCount(grid0) >= 2

\* ------------------------------------------------------------------- C18
\* The cells that hold Empty.
EmptyCells(g) == {c \in Cells(g) : g[c[1]][c[2]] = Empty}

\* The m-th destination of the pass is a cell an earlier turn of it vacated.
Reused(m) == \E j \in 1..(m - 1) : unhappy_cells[j] = dests[m]

C18_WorkingSet ==
    pc = "update" =>
        /\ Range(empty_spots) \subseteq EmptyCells(grid)
        /\ \A m, n \in 1..Len(empty_spots) : m # n => empty_spots[m] # empty_spots[n]
        /\ \A m \in 1..Len(dests) :
              m <= EmptyCount(pre) => dests[m] \in EmptyCells(pre)
        /\ rescans = {r \in 2..Len(dests) : (r - 1) % EmptyCount(pre) = 0}
        /\ \A m \in 1..Len(dests) :
              \A j \in 1..(m - 1) :
                  unhappy_cells[j] = dests[m] => \E r \in rescans : j < r /\ r <= m

C18_Draw ==
    Drew =>
        /\ empty_spots # <<>> => dests'[Len(dests')] \in Range(empty_spots)
        /\ empty_spots = <<>> =>
              /\ dests'[Len(dests')] \in EmptyCells(grid)
              /\ Range(empty_spots') = EmptyCells(grid) \ {dests'[Len(dests')]}
        /\ empty_spots # <<>> =>
              Range(empty_spots') = Range(empty_spots) \ {dests'[Len(dests')]}

\* C18: in a pass a destination is drawn from the working list empty_spots;
\* the grid is scanned again only when that list is empty, which is at every
\* turn that follows a multiple of the number of empty cells; so a cell vacated
\* earlier in the pass is drawn only after a rescan that came after it was
\* vacated.
C18_RescanOnExhaustion == []C18_WorkingSet /\ [][C18_Draw]_vars

\* An agent has been moved to a cell vacated earlier in the pass, in a pass
\* with more unhappy agents than empty cells.
C18_Witness ==
    /\ pc = "update"
    /\ Len(unhappy_cells) > EmptyCount(pre)
    /\ \E m \in 1..Len(dests) : Reused(m)

\* ------------------------------------------------------------------- C19
\* C19: a pass that starts on a grid with an Empty cell never fails: at every
\* turn the grid still has an Empty cell for the rescan to find, every agent
\* walked so far has been moved, and the pass ends with all of them moved.
\* The IndexError is raised only at the first agent of a pass on a grid with
\* no Empty cell, nothing having been written.
C19_PassCompletes ==
    /\ (pc = "update" /\ EmptyCount(pre) > 0) =>
          /\ EmptyCells(grid) # {}
          /\ Len(dests) = k - 1
          /\ k <= Len(unhappy_cells) + 1
    /\ pc = "IndexError" =>
          /\ k = 1
          /\ dests = <<>>
          /\ grid = pre
          /\ EmptyCount(pre) = 0

\* A pass with more unhappy agents than empty cells has moved them all, the
\* working list having been exhausted and scanned again on the way.
C19_Witness ==
    /\ PassDone
    /\ Len(unhappy_cells) > EmptyCount(pre)
    /\ EmptyCount(pre) > 0
    /\ rescans # {}
    /\ Len(dests) = Len(unhappy_cells)

\* ------------------------------------------------------------------- C20
\* C20: in a pass the cells of the unhappy list are distinct cells that held
\* an agent when the pass started; the destination of an agent is neither its
\* own cell nor the cell of an agent still to be moved, so an agent once
\* placed stays where it was placed; the agents not on the list stay where
\* they were; and when the pass ends every agent of the list has been moved.
C20_MovedOnce ==
    pc = "update" =>
        /\ \A m, n \in 1..Len(unhappy_cells) : m # n => unhappy_cells[m] # unhappy_cells[n]
        /\ \A m \in 1..Len(unhappy_cells) :
              pre[unhappy_cells[m][1]][unhappy_cells[m][2]] # Empty
        /\ Len(dests) = k - 1
        /\ \A m \in 1..Len(dests) :
              /\ \A j \in m..Len(unhappy_cells) : dests[m] # unhappy_cells[j]
              /\ grid[dests[m][1]][dests[m][2]] =
                     pre[unhappy_cells[m][1]][unhappy_cells[m][2]]
        /\ \A c \in Cells(pre) :
              (pre[c[1]][c[2]] # Empty /\ c \notin Range(unhappy_cells)) =>
                  grid[c[1]][c[2]] = pre[c[1]][c[2]]
        /\ PassDone => Len(dests) = Len(unhappy_cells)

\* A pass of two moves or more is over, one of them onto a cell that another
\* agent of the pass had left.
C20_Witness ==
    /\ PassDone
    /\ Len(dests) >= 2
    /\ \E m \in 1..Len(dests) : Reused(m)

====
